---- MODULE Spec2Model ----
(***************************************************************************)
(* A model of the column-oriented DataFrame of src/dataframe_loader.py:    *)
(* construction, column access, filter, project, agg, group_by().agg and   *)
(* join.  A DataFrame is the pair (_data, _length); _data is a Python dict *)
(* (insertion ordered, unique keys) and is modelled as a sequence of       *)
(* [key, values] entries.  Every operation is an operator computed the way *)
(* the code computes it, and an action that applies it to the table held   *)
(* in `self` and records the call and what it returned or raised.          *)
(***************************************************************************)
EXTENDS Integers, Sequences, FiniteSets, TLC

VARIABLES self, grouped, call, result, mem

vars == <<self, grouped, call, result, mem>>

(***************************************************************************)
(* Bounds of the model.                                                    *)
(***************************************************************************)
MaxRows == 2
MaxCols == 2
\* the most (left row, right row) pairs a join has to consider
MaxJoinPairs == 4

\* Column names.  "a" + "_x" = "a_x": a suffixed overlap column can meet a
\* column that already has that name.
Names == {"a", "a_x"}

(***************************************************************************)
(* Cell values.  Python values of different types are kept apart by kind:  *)
(* an int, a str, None, and the floats the aggregators return (n/d, and    *)
(* sqrt(n/d) for std).                                                     *)
(***************************************************************************)
IntV(n) == [kind |-> "int", n |-> n, d |-> 1, s |-> ""]
StrV(s) == [kind |-> "str", n |-> 0, d |-> 1, s |-> s]
None == [kind |-> "none", n |-> 0, d |-> 1, s |-> ""]

RECURSIVE Gcd(_, _)
Gcd(m, n) == IF n = 0 THEN m ELSE Gcd(n, m % n)

\* The float n/d (d > 0, n >= 0), in lowest terms so that equal floats are equal.
FloatV(n, d) ==
    LET g == Gcd(n, d)
    IN  [kind |-> "float", n |-> n \div g, d |-> d \div g, s |-> ""]

\* The float sqrt(n/d).
SqrtV(n, d) == [FloatV(n, d) EXCEPT !.kind = "sqrt"]

\* The cells a table is built from: a number and the missing sentinel "NA".
CellValues == {IntV(1), StrV("NA")}

(***************************************************************************)
(* Python dict and defaultdict(list), as a sequence of [key, values].      *)
(***************************************************************************)
Keys(d) == [i \in 1..Len(d) |-> d[i].key]

KeySet(d) == {d[i].key : i \in 1..Len(d)}

Has(d, k) == \E i \in 1..Len(d) : d[i].key = k

Get(d, k) == d[CHOOSE i \in 1..Len(d) : d[i].key = k].values

\* d[k] = vals
SetItem(d, k, vals) ==
    IF Has(d, k)
    THEN [i \in 1..Len(d) |-> IF d[i].key = k THEN [key |-> k, values |-> vals] ELSE d[i]]
    ELSE Append(d, [key |-> k, values |-> vals])

\* d[k].append(v) on a defaultdict(list)
AppendTo(d, k, v) ==
    IF Has(d, k) THEN SetItem(d, k, Append(Get(d, k), v)) ELSE SetItem(d, k, <<v>>)

RECURSIVE AppendAll(_, _)
\* d[k].append(v) for each <<k, v>> of items, in order
AppendAll(d, items) ==
    IF items = <<>> THEN d
    ELSE AppendAll(AppendTo(d, Head(items)[1], Head(items)[2]), Tail(items))

(***************************************************************************)
(* What a call returns or raises.                                          *)
(***************************************************************************)
EmptyDF == [data |-> <<>>, length |-> 0]

Ok(df) == [status |-> "ok", df |-> df, value |-> <<>>]

OkValue(v) == [status |-> "ok", df |-> EmptyDF, value |-> v]

\* An exception: no table is returned.  ValueError("All columns must have the
\* same length") is SchemaError, KeyError is ColumnNotFound, ValueError("Unknown
\* aggregation function") is UnknownAggregator, TypeError is TypeConversionError,
\* and ValueError of min()/max() of an empty list is EmptySequence.
Raise(e) == [status |-> e, df |-> EmptyDF, value |-> <<>>]

NoResult == [status |-> "none", df |-> EmptyDF, value |-> <<>>]

\* DataFrame.__init__ without the check of the column lengths (lines 45-47)
NewDataFrameUnchecked(data) ==
    IF Len(data) = 0 THEN Ok(EmptyDF)
    ELSE Ok([data |-> data, length |-> Len(data[1].values)])

\* DataFrame.__init__
NewDataFrame(data) ==
    IF Len(data) = 0 THEN Ok(EmptyDF)
    ELSE LET lengths == [i \in 1..Len(data) |-> Len(data[i].values)]
         IN  IF Cardinality({lengths[i] : i \in 1..Len(lengths)}) > 1
             THEN Raise("SchemaError")
             ELSE Ok([data |-> data, length |-> lengths[1]])

\* DataFrame.columns
Columns(df) == Keys(df.data)

\* DataFrame.shape
Shape(df) == <<df.length, Len(df.data)>>

\* the row dict built at index i (0-based in the code, 1-based here)
RowAt(df, i) == [j \in 1..Len(df.data) |-> [key |-> df.data[j].key, values |-> df.data[j].values[i]]]

(***************************************************************************)
(* The tables and constructor arguments of the model.                      *)
(***************************************************************************)
Lists == UNION {[1..n -> CellValues] : n \in 0..MaxRows}

\* lists of distinct column names (the keys of a dict literal)
NameSeqs ==
    {ns \in UNION {[1..n -> Names] : n \in 0..MaxCols} :
        \A i, j \in 1..Len(ns) : ns[i] = ns[j] => i = j}

\* the column maps handed to the constructor; the lists may differ in length
DataMaps ==
    UNION {{[i \in 1..Len(ns) |-> [key |-> ns[i], values |-> vs[i]]] :
                vs \in [1..Len(ns) -> Lists]} : ns \in NameSeqs}

\* the tables the constructor accepts
Tables == {NewDataFrame(d).df : d \in {m \in DataMaps : NewDataFrame(m).status = "ok"}}

(***************************************************************************)
(* filter                                                                  *)
(***************************************************************************)
\* The row predicates of the callers: lambda row: row[col] == val, and the
\* predicates that accept or reject every row.
Predicates ==
    {[kind |-> "const", col |-> "", val |-> v] : v \in {IntV(1), IntV(0)}}
    \cup {[kind |-> "eq", col |-> c, val |-> v] : c \in Names, v \in CellValues}

\* condition(row): "true", "false", or KeyError of row[col]
Condition(P, row) ==
    IF P.kind = "const" THEN (IF P.val = IntV(1) THEN "true" ELSE "false")
    ELSE IF ~Has(row, P.col) THEN "KeyError"
    ELSE IF Get(row, P.col) = P.val THEN "true" ELSE "false"

\* DataFrame.filter
FilterDF(df, P) ==
    LET RECURSIVE Loop(_, _)
        Loop(i, filtered_data) ==
            IF i > df.length THEN NewDataFrame(filtered_data)
            ELSE LET row == RowAt(df, i)
                     c == Condition(P, row)
                 IN  IF c = "KeyError" THEN Raise("ColumnNotFound")
                     ELSE IF c = "true"
                     THEN Loop(i + 1, AppendAll(filtered_data,
                                [j \in 1..Len(row) |-> <<row[j].key, row[j].values>>]))
                     ELSE Loop(i + 1, filtered_data)
    IN  Loop(1, <<>>)

(***************************************************************************)
(* __getitem__ and project                                                 *)
(***************************************************************************)
\* DataFrame.__getitem__ with a string key
GetItem(df, name) ==
    IF ~Has(df.data, name) THEN Raise("ColumnNotFound") ELSE OkValue(Get(df.data, name))

\* the lists of column names handed to project and group_by
ColumnLists == UNION {[1..n -> Names] : n \in 0..MaxCols}

\* a dict of the first of the columns only
DictOfFirst(data, columns, acc) ==
    IF columns = <<>> THEN acc ELSE SetItem(acc, Head(columns), Get(data, Head(columns)))

RECURSIVE DictOf(_, _, _)
\* the dict comprehension {col: data[col] for col in columns}
DictOf(data, columns, acc) ==
    IF columns = <<>> THEN acc
    ELSE DictOf(data, Tail(columns), SetItem(acc, Head(columns), Get(data, Head(columns))))

\* DataFrame.project
ProjectDF(df, columns) ==
    IF ~(\A i \in 1..Len(columns) : Has(df.data, columns[i]))
    THEN Raise("ColumnNotFound")
    ELSE NewDataFrame(DictOf(df.data, columns, <<>>))

\* the names the KeyError of project lists
ProjectMissing(df, columns) == SelectSeq(columns, LAMBDA c : ~Has(df.data, c))

(***************************************************************************)
(* Aggregators                                                             *)
(***************************************************************************)
Aggregators == {"sum", "mean", "min", "max", "count", "std", "var"}

\* the order of str under <: "" < "NA"
StrRank(s) == IF s = "" THEN 0 ELSE 1

\* a < b of Python: "true", "false", or "TypeError" when the operands do not compare
Less(a, b) ==
    IF a.kind = "int" /\ b.kind = "int" THEN (IF a.n < b.n THEN "true" ELSE "false")
    ELSE IF a.kind = "str" /\ b.kind = "str"
    THEN (IF StrRank(a.s) < StrRank(b.s) THEN "true" ELSE "false")
    ELSE "TypeError"

RECURSIVE SumFrom(_, _)
\* sum(values) from the running total: an int, or "TypeError" at the first
\* value that is not a number
SumFrom(total, values) ==
    IF values = <<>> THEN OkValue(IntV(total))
    ELSE IF Head(values).kind # "int" THEN Raise("TypeConversionError")
    ELSE SumFrom(total + Head(values).n, Tail(values))

RECURSIVE SumSquares(_)
SumSquares(values) ==
    IF values = <<>> THEN 0 ELSE Head(values).n * Head(values).n + SumSquares(Tail(values))

RECURSIVE Best(_, _, _)
\* min(values) (which = "min") or max(values) once the first item is taken:
\* each next item is compared with the best so far
Best(which, best, values) ==
    IF values = <<>> THEN OkValue(best)
    ELSE LET c == IF which = "min" THEN Less(Head(values), best) ELSE Less(best, Head(values))
         IN  IF c = "TypeError" THEN Raise("TypeConversionError")
             ELSE Best(which, IF c = "true" THEN Head(values) ELSE best, Tail(values))

\* DataFrame._apply_aggregation with a string func
ApplyAggregation(values, func) ==
    IF func \notin Aggregators THEN Raise("UnknownAggregator")
    ELSE IF func = "count" THEN OkValue(IntV(Len(values)))
    ELSE IF func \in {"min", "max"}
    THEN (IF values = <<>> THEN Raise("EmptySequence")
          ELSE Best(func, Head(values), Tail(values)))
    ELSE LET total == SumFrom(0, values)
             n == Len(values)
         IN  IF func = "sum" THEN total
             ELSE IF n = 0 THEN OkValue(IntV(0))
             ELSE IF total.status # "ok" THEN total
             ELSE IF func = "mean" THEN OkValue(FloatV(total.value.n, n))
             ELSE LET v == n * SumSquares(values) - total.value.n * total.value.n
                  IN  IF func = "var" THEN OkValue(FloatV(v, n * n))
                      ELSE OkValue(SqrtV(v, n * n))

(***************************************************************************)
(* agg on a table                                                          *)
(***************************************************************************)
\* The aggregator lists of a spec entry; a str func is the one-element list
\* (lines 199-200).  "median" is not an aggregator.
FuncLists ==
    {<<f>> : f \in Aggregators \cup {"median"}}
    \cup {<<f, g>> : f \in {"sum", "count"}, g \in {"sum", "count"}}

TwoColumnFuncLists == {<<"count">>, <<"sum">>, <<"median">>}

\* the aggregation specs: a dict from column name to aggregator list
AggSpecs ==
    {<<>>}
    \cup {<<[key |-> c, values |-> fs]>> : c \in Names, fs \in FuncLists}
    \cup {sp \in {<<[key |-> c1, values |-> f1], [key |-> c2, values |-> f2]>> :
                    c1 \in Names, c2 \in Names,
                    f1 \in TwoColumnFuncLists, f2 \in TwoColumnFuncLists} :
            sp[1].key # sp[2].key}

\* the output column of (col, func) among funcs
ResultKey(col, funcs, func) == IF Len(funcs) > 1 THEN col \o "_" \o func ELSE col

\* DataFrame.agg
AggDF(df, aggregations) ==
    LET RECURSIVE Funcs(_, _, _)
        RECURSIVE Items(_, _)
        \* for func in funcs: ...; then the next item of the spec
        Funcs(k, j, res) ==
            LET col == aggregations[k].key
                funcs == aggregations[k].values
            IN  IF j > Len(funcs) THEN Items(k + 1, res)
                ELSE LET agg_value == ApplyAggregation(Get(df.data, col), funcs[j])
                     IN  IF agg_value.status # "ok" THEN agg_value
                         ELSE Funcs(k, j + 1,
                                SetItem(res, ResultKey(col, funcs, funcs[j]), <<agg_value.value>>))
        \* for col, funcs in aggregations.items(): ...
        Items(k, res) ==
            IF k > Len(aggregations) THEN NewDataFrame(res)
            ELSE IF ~Has(df.data, aggregations[k].key) THEN Raise("ColumnNotFound")
            ELSE Funcs(k, 1, res)
    IN  Items(1, <<>>)

(***************************************************************************)
(* group_by and agg on the grouped handle                                  *)
(***************************************************************************)
\* tuple(df._data[col][i] for col in cols)
KeyAt(df, cols, i) == [j \in 1..Len(cols) |-> Get(df.data, cols[j])[i]]

\* the index built from the last row to the first
BuildIndexBackwards(df, cols) ==
    LET RECURSIVE Loop(_, _)
        Loop(i, index) ==
            IF i < 1 THEN index
            ELSE Loop(i - 1, AppendTo(index, KeyAt(df, cols, i), i))
    IN  Loop(df.length, <<>>)

\* the index of the rows of df by their key at cols: a defaultdict(list) from
\* key tuple to row indices, keys in first-seen order
BuildIndex(df, cols) ==
    LET RECURSIVE Loop(_, _)
        Loop(i, index) ==
            IF i > df.length THEN index
            ELSE Loop(i + 1, AppendTo(index, KeyAt(df, cols, i), i))
    IN  Loop(1, <<>>)

NoHandle == [live |-> FALSE, df |-> EmptyDF, group_cols |-> <<>>, groups |-> <<>>]

\* GroupedDataFrame.__init__ with _build_groups: df._data[col] raises KeyError
\* at the first row when a group column is missing
GroupBy(df, group_cols) ==
    IF df.length > 0 /\ \E j \in 1..Len(group_cols) : ~Has(df.data, group_cols[j])
    THEN Raise("ColumnNotFound") @@ [handle |-> NoHandle]
    ELSE Ok(EmptyDF) @@ [handle |-> [live |-> TRUE, df |-> df, group_cols |-> group_cols,
                                       groups |-> BuildIndex(df, group_cols)]]

\* GroupedDataFrame.agg
GroupedAgg(h, aggregations) ==
    LET RECURSIVE Groups(_, _)
        RECURSIVE Items(_, _, _)
        RECURSIVE Funcs(_, _, _, _)
        Funcs(g, k, j, res) ==
            LET col == aggregations[k].key
                funcs == aggregations[k].values
                indices == h.groups[g].values
                group_values == [x \in 1..Len(indices) |-> Get(h.df.data, col)[indices[x]]]
            IN  IF j > Len(funcs) THEN Items(g, k + 1, res)
                ELSE LET agg_value == ApplyAggregation(group_values, funcs[j])
                     IN  IF agg_value.status # "ok" THEN agg_value
                         ELSE Funcs(g, k, j + 1,
                                AppendTo(res, ResultKey(col, funcs, funcs[j]), agg_value.value))
        Items(g, k, res) ==
            IF k > Len(aggregations) THEN Groups(g + 1, res)
            ELSE IF ~Has(h.df.data, aggregations[k].key) THEN Raise("ColumnNotFound")
            ELSE Funcs(g, k, 1, res)
        \* for group_key, indices in self._groups.items(): ...
        Groups(g, res) ==
            IF g > Len(h.groups) THEN NewDataFrame(res)
            ELSE Items(g, 1, AppendAll(res,
                    [i \in 1..Len(h.group_cols) |-> <<h.group_cols[i], h.groups[g].key[i]>>]))
    IN  Groups(1, <<>>)

(***************************************************************************)
(* join                                                                    *)
(***************************************************************************)
\* right_index.get(key, [])
IndexGet(index, key) == IF Has(index, key) THEN Get(index, key) ELSE <<>>

\* the enumerations of a set: the orders in which Python may iterate it
Orders(S) ==
    {o \in [1..Cardinality(S) -> S] : \A i, j \in 1..Cardinality(S) : o[i] = o[j] => i = j}

\* col + suffix if col in overlap else col
ColName(col, overlap, suffix) == IF col \in overlap THEN col \o suffix ELSE col

\* the appends of one output row: the join keys, then the left columns, then
\* the right columns; i is the row of each side, 0 for a side that is None
RowItems(left, right, on, keySide, lorder, rorder, overlap, suffixes, i, r) ==
    [j \in 1..Len(on) |->
        <<on[j], IF keySide = "left" THEN Get(left.data, on[j])[i] ELSE Get(right.data, on[j])[r]>>]
    \o [j \in 1..Len(lorder) |->
        <<ColName(lorder[j], overlap, suffixes[1]),
          IF i = 0 THEN None ELSE Get(left.data, lorder[j])[i]>>]
    \o [j \in 1..Len(rorder) |->
        <<ColName(rorder[j], overlap, suffixes[2]),
          IF r = 0 THEN None ELSE Get(right.data, rorder[j])[r]>>]

\* only the first of the matches of a left row is recorded as matched
MarkFirstMatch(matched_right, right_matches) == matched_right \cup {right_matches[1]}

\* matched_right.add(right_idx) for each right_idx of right_matches
\* (lines 354-355)
MarkMatched(matched_right, right_matches) ==
    matched_right \cup {right_matches[x] : x \in 1..Len(right_matches)}

\* every mode that is not right or outer runs the loop of inner
InnerByDefault(how) == how \notin {"right", "outer"}

\* how in ['inner', 'left'] (line 275)
InnerOrLeft(how) == how \in {"inner", "left"}

\* the output starts with an empty column for each join key
ResultDataWithKeys(on) == [j \in 1..Len(on) |-> [key |-> on[j], values |-> <<>>]]

\* result_data = defaultdict(list): no column before the first append
\* (line 272)
NewResultData(on) == <<>>

\* The output rows of the join in the order the loops emit them.  Each is
\* the row i of the left table and the row r of the right table it is made
\* of (0 for a side that is None), the side its keys are read from and the
\* loop that emits it: "inner" for a matched pair, "left" and "right" for an
\* unmatched row of that side.
JoinPlan(left, other, on, how) ==
    LET right_index == BuildIndex(other, on)
        left_index == BuildIndex(left, on)
        \* for idx in matches: one output row each
        Matches(driver, i, matches) ==
            [x \in 1..Len(matches) |->
                IF driver = "left"
                THEN [keySide |-> "left", i |-> i, r |-> matches[x], phase |-> "inner"]
                ELSE [keySide |-> "right", i |-> matches[x], r |-> i, phase |-> "inner"]]
        RECURSIVE InnerLeft(_, _)
        \* lines 275-304
        InnerLeft(i, plan) ==
            IF i > left.length THEN plan
            ELSE LET right_matches == IndexGet(right_index, KeyAt(left, on, i))
                 IN  IF right_matches # <<>>
                     THEN InnerLeft(i + 1, plan \o Matches("left", i, right_matches))
                     ELSE IF how = "left"
                     THEN InnerLeft(i + 1, Append(plan, [keySide |-> "left", i |-> i, r |-> 0,
                                                         phase |-> "left"]))
                     ELSE InnerLeft(i + 1, plan)
        RECURSIVE Right(_, _)
        \* lines 306-340
        Right(i, plan) ==
            IF i > other.length THEN plan
            ELSE LET left_matches == IndexGet(left_index, KeyAt(other, on, i))
                 IN  IF left_matches # <<>>
                     THEN Right(i + 1, plan \o Matches("right", i, left_matches))
                     ELSE Right(i + 1, Append(plan, [keySide |-> "right", i |-> 0, r |-> i,
                                                     phase |-> "right"]))
        RECURSIVE OuterInner(_, _, _, _)
        RECURSIVE UnmatchedLeft(_, _, _, _)
        RECURSIVE UnmatchedRight(_, _, _)
        \* lines 348-366
        OuterInner(i, matched_left, matched_right, plan) ==
            IF i > left.length THEN UnmatchedLeft(1, matched_left, matched_right, plan)
            ELSE LET right_matches == IndexGet(right_index, KeyAt(left, on, i))
                 IN  IF right_matches # <<>>
                     THEN OuterInner(i + 1, matched_left \cup {i},
                                     MarkMatched(matched_right, right_matches),
                                     plan \o Matches("left", i, right_matches))
                     ELSE OuterInner(i + 1, matched_left, matched_right, plan)
        \* lines 369-378
        UnmatchedLeft(i, matched_left, matched_right, plan) ==
            IF i > left.length THEN UnmatchedRight(1, matched_right, plan)
            ELSE UnmatchedLeft(i + 1, matched_left, matched_right,
                    IF i \notin matched_left
                    THEN Append(plan, [keySide |-> "left", i |-> i, r |-> 0, phase |-> "left"])
                    ELSE plan)
        \* lines 381-390
        UnmatchedRight(i, matched_right, plan) ==
            IF i > other.length THEN plan
            ELSE UnmatchedRight(i + 1, matched_right,
                    IF i \notin matched_right
                    THEN Append(plan, [keySide |-> "right", i |-> 0, r |-> i, phase |-> "right"])
                    ELSE plan)
    IN  IF InnerOrLeft(how) THEN InnerLeft(1, <<>>)
        ELSE IF how = "right" THEN Right(1, <<>>)
        ELSE IF how = "outer" THEN OuterInner(1, {}, {}, <<>>)
        ELSE <<>>

\* DataFrame.join.  lorder and rorder are the iteration orders of the sets
\* left_cols and right_cols.
JoinDF(left, other, on, how, suffixes, lorder, rorder) ==
    IF \E j \in 1..Len(on) : ~Has(left.data, on[j]) \/ ~Has(other.data, on[j])
    THEN Raise("ColumnNotFound")
    ELSE
    LET onSet == {on[j] : j \in 1..Len(on)}
        left_cols == KeySet(left.data) \ onSet
        right_cols == KeySet(other.data) \ onSet
        overlap == left_cols \cap right_cols
        plan == JoinPlan(left, other, on, how)
        RECURSIVE Emit(_, _)
        \* the appends to result_data of the output rows from the k-th on
        Emit(k, res) ==
            IF k > Len(plan) THEN res
            ELSE Emit(k + 1,
                      AppendAll(res, RowItems(left, other, on, plan[k].keySide, lorder, rorder,
                                              overlap, suffixes, plan[k].i, plan[k].r)))
    IN  NewDataFrame(Emit(1, NewResultData(on)))

\* the join modes of the callers, and one that is none of the four
Hows == {"inner", "left", "right", "outer", "cross"}

\* the default suffixes, and a pair that gives both sides the same suffix
SuffixPairs == {<<"_x", "_y">>, <<"_x", "_x">>}

\* the `on` arguments; a str is the one-element list (lines 250-251)
OnLists == {<<>>, <<"a">>, <<"a_x">>, <<"a", "a_x">>}

(***************************************************************************)
(* The CSV reader of src/utils.py.  A text is a sequence of characters and *)
(* so is a field ("".join(field_chars)); a row is a sequence of fields.    *)
(***************************************************************************)
\* the longest text handed to the parser as it is
MaxTextLen == 5
\* the most characters and fields of a generated list of rows
MaxCsvSize == 4

\* an ordinary character, and the characters the scanner treats specially
Chars == {"a", ",", "\"", "\n", "\r"}

Texts == UNION {[1..n -> Chars] : n \in 0..MaxTextLen}

\* the quote at text[i] is not followed by a second quote (lines 21-22)
QuoteNeverDoubled(text, i, quote_char) == FALSE

\* nxt == quote_char: the quote at text[i] is followed by a second quote
\* (lines 21-22)
QuoteDoubled(text, i, quote_char) == i + 1 <= Len(text) /\ text[i + 1] = quote_char

\* every row that ends at a terminator is kept
KeepEveryRow(row) == TRUE

\* any(cell != "" for cell in row) or len(row) > 1 (line 57)
KeepRow(row) == (\E c \in 1..Len(row) : row[c] # <<>>) \/ Len(row) > 1

\* the character is taken as an end of record only when it is "\n"
IsTerminatorLfOnly(ch) == ch = "\n"

\* ch == "\r" or ch == "\n" (line 47)
IsTerminator(ch) == ch = "\r" \/ ch = "\n"

\* a quote is accepted whatever the field buffer holds
UnexpectedQuoteNever(field_chars) == FALSE

\* if field_chars: raise ValueError("Unexpected quote inside unquoted field")
\* (lines 35-36)
UnexpectedQuote(field_chars) == field_chars # <<>>

\* the scanner before the first character (lines 9-15); error is the
\* exception raised, "" while there is none
ScanStart ==
    [i |-> 1, rows |-> <<>>, row |-> <<>>, field_chars |-> <<>>, in_quotes |-> FALSE,
     error |-> ""]

\* one iteration of `while i < n` at the character text[st.i] (lines 16-63).
\* ValueError("Unexpected quote inside unquoted field") is MalformedField.
ScanStep(text, delimiter, quote_char, st) ==
    LET n == Len(text)
        i == st.i
        ch == text[i]
    IN  IF st.in_quotes
        THEN \* lines 19-31
             IF ch = quote_char
             THEN IF QuoteDoubled(text, i, quote_char)
                  THEN [st EXCEPT !.field_chars = Append(@, quote_char), !.i = i + 2]
                  ELSE [st EXCEPT !.in_quotes = FALSE, !.i = i + 1]
             ELSE [st EXCEPT !.field_chars = Append(@, ch), !.i = i + 1]
        ELSE IF ch = quote_char
        THEN \* lines 34-39
             IF UnexpectedQuote(st.field_chars) THEN [st EXCEPT !.error = "MalformedField"]
             ELSE [st EXCEPT !.in_quotes = TRUE, !.i = i + 1]
        ELSE IF ch = delimiter
        THEN \* lines 41-45
             [st EXCEPT !.row = Append(@, st.field_chars), !.field_chars = <<>>, !.i = i + 1]
        ELSE IF IsTerminator(ch)
        THEN \* lines 47-60
             LET ended == Append(st.row, st.field_chars)
                 next == IF ch = "\r" /\ i + 1 <= n /\ text[i + 1] = "\n"
                         THEN i + 2 ELSE i + 1
             IN  [st EXCEPT !.rows = IF KeepRow(ended) THEN Append(@, ended) ELSE @,
                            !.row = <<>>, !.field_chars = <<>>, !.i = next]
        ELSE \* lines 62-63
             [st EXCEPT !.field_chars = Append(@, ch), !.i = i + 1]

RECURSIVE ScanStates(_, _, _, _)
\* the scanner at the top of every iteration of the loop from st on, and
\* last the scanner that left the loop or raised
ScanStates(text, delimiter, quote_char, st) ==
    IF st.error # "" \/ st.i > Len(text) THEN <<st>>
    ELSE <<st>> \o ScanStates(text, delimiter, quote_char,
                              ScanStep(text, delimiter, quote_char, st))

\* only a non-empty field buffer counts as content left at the end of input
TrailingFieldOnly(field_chars, row) == field_chars # <<>>

\* if field_chars or row (line 70)
TrailingContent(field_chars, row) == field_chars # <<>> \/ row # <<>>

\* the end of input is accepted inside quotes
UnterminatedNever(in_quotes) == FALSE

\* if in_quotes: raise ValueError("Unterminated quoted field at end of
\* input") (lines 66-67)
Unterminated(in_quotes) == in_quotes

\* _parse_csv.  ValueError("Unterminated quoted field at end of input") is
\* UnterminatedQuote.
ParseCsv(text, delimiter, quote_char) ==
    LET states == ScanStates(text, delimiter, quote_char, ScanStart)
        st == states[Len(states)]
    IN  IF st.error # "" THEN Raise(st.error)
        \* lines 65-74
        ELSE IF Unterminated(st.in_quotes) THEN Raise("UnterminatedQuote")
        ELSE IF TrailingContent(st.field_chars, st.row)
        THEN OkValue(Append(st.rows, Append(st.row, st.field_chars)))
        ELSE OkValue(st.rows)

\* the defaults of delimiter and quote_char
DefaultDelimiter == ","

DefaultQuote == "\""

(***************************************************************************)
(* Generated CSV: every field quoted with its quotes doubled, the fields   *)
(* of a row joined by the delimiter, every row ended by a terminator.      *)
(***************************************************************************)
\* a list of rows as one sequence: the characters of the fields, "FS" after
\* a field that is followed by another field of the row, "RS" after a row
Tokens == Chars \cup {"FS", "RS"}

RECURSIVE RowsOf(_, _, _, _)
RowsOf(tokens, rows, row, field) ==
    IF tokens = <<>> THEN rows
    ELSE IF Head(tokens) = "RS"
    THEN RowsOf(Tail(tokens), Append(rows, Append(row, field)), <<>>, <<>>)
    ELSE IF Head(tokens) = "FS"
    THEN RowsOf(Tail(tokens), rows, Append(row, field), <<>>)
    ELSE RowsOf(Tail(tokens), rows, row, Append(field, Head(tokens)))

\* the lists of rows (one field or more each) of at most MaxCsvSize
\* characters and fields
RowLists ==
    {RowsOf(t, <<>>, <<>>, <<>>) :
        t \in {u \in UNION {[1..n -> Tokens] : n \in 0..MaxCsvSize} :
                    u = <<>> \/ u[Len(u)] = "RS"}}

Terminators == {<<"\n">>, <<"\r", "\n">>}

RECURSIVE WriteField(_, _)
\* the characters of the field with every quote doubled
WriteField(field, quote_char) ==
    IF field = <<>> THEN <<>>
    ELSE (IF Head(field) = quote_char THEN <<quote_char, quote_char>> ELSE <<Head(field)>>)
         \o WriteField(Tail(field), quote_char)

RECURSIVE WriteRow(_, _, _)
WriteRow(row, delimiter, quote_char) ==
    <<quote_char>> \o WriteField(Head(row), quote_char) \o <<quote_char>>
    \o (IF Len(row) = 1 THEN <<>>
        ELSE <<delimiter>> \o WriteRow(Tail(row), delimiter, quote_char))

RECURSIVE WriteCsv(_, _, _, _)
WriteCsv(rows, terminator, delimiter, quote_char) ==
    IF rows = <<>> THEN <<>>
    ELSE WriteRow(Head(rows), delimiter, quote_char) \o terminator
         \o WriteCsv(Tail(rows), terminator, delimiter, quote_char)

RECURSIVE HeaderDict(_, _, _, _)
\* {header[i]: padded[i] for i in range(len(header))}
HeaderDict(header, padded, i, acc) ==
    IF i > Len(header) THEN acc
    ELSE HeaderDict(header, padded, i + 1, SetItem(acc, header[i], padded[i]))

\* read_csv on the text of the source
ReadCsv(text, has_header) ==
    LET parsed == ParseCsv(text, DefaultDelimiter, DefaultQuote)
    IN  IF parsed.status # "ok" THEN parsed
        ELSE IF ~has_header THEN parsed
        ELSE IF parsed.value = <<>> THEN OkValue(<<>>)
        ELSE LET rows == parsed.value
                 header == rows[1]
                 Padded(r) ==
                    IF Len(r) < Len(header)
                    THEN r \o [k \in 1..(Len(header) - Len(r)) |-> <<>>]
                    ELSE SubSeq(r, 1, Len(header))
             IN  OkValue([k \in 1..(Len(rows) - 1) |->
                            HeaderDict(header, Padded(rows[k + 1]), 1, <<>>)])

\* the cells of a column that are not empty
ColumnCellsNonEmpty(rows, col) ==
    SelectSeq([k \in 1..Len(rows) |-> Get(rows[k], col)], LAMBDA cell : cell # <<>>)

\* [row[col] for row in rows] (line 220)
ColumnCells(rows, col) == [k \in 1..Len(rows) |-> Get(rows[k], col)]

\* load_data_as_dataframe on the text of the file at csv_path
LoadDataAsDataFrame(text) ==
    LET read == ReadCsv(text, TRUE)
    IN  IF read.status # "ok" THEN read
        ELSE IF read.value = <<>> THEN NewDataFrame(<<>>)
        ELSE LET rows == read.value
                 columns == Keys(rows[1])
             IN  NewDataFrame([j \in 1..Len(columns) |->
                                [key |-> columns[j], values |-> ColumnCells(rows, columns[j])]])

(***************************************************************************)
(* Column storage.  A column is a Python list object; two tables share     *)
(* storage when a column of each is the same object.  heap[addr] is the    *)
(* list object at addr, and a stored table is (_data, _length) with the    *)
(* address of a list object in the place of each column's values.          *)
(***************************************************************************)
\* the table as the calls see it: the lists behind the addresses, and the
\* _length stored at construction
Deref(heap, stored) ==
    [data |-> [i \in 1..Len(stored.data) |->
                    [key |-> stored.data[i].key, values |-> heap[stored.data[i].values]]],
     length |-> stored.length]

RECURSIVE Allocate(_, _, _)
\* a new list object for each column of data, in order
Allocate(heap, data, acc) ==
    IF data = <<>> THEN [heap |-> heap, data |-> acc]
    ELSE Allocate(Append(heap, Head(data).values), Tail(data),
                  Append(acc, [key |-> Head(data).key, values |-> Len(heap) + 1]))

\* DataFrame.__init__ keeping the list objects it is handed as its columns
InitStorageShared(heap, handed) ==
    IF Len(handed) = 0 THEN [status |-> "ok", heap |-> heap, stored |-> EmptyDF]
    ELSE [status |-> "ok", heap |-> heap,
          stored |-> [data |-> handed, length |-> Len(heap[handed[1].values])]]

\* DataFrame.__init__ on list objects: {col: list(values) ...} makes a new
\* list object for every column (line 50)
InitStorage(heap, handed) ==
    IF Len(handed) = 0 THEN [status |-> "ok", heap |-> heap, stored |-> EmptyDF]
    ELSE LET lengths == [i \in 1..Len(handed) |-> Len(heap[handed[i].values])]
         IN  IF Cardinality({lengths[i] : i \in 1..Len(lengths)}) > 1
             THEN [status |-> "SchemaError", heap |-> heap, stored |-> EmptyDF]
             ELSE LET copies == Allocate(heap,
                                    [i \in 1..Len(handed) |->
                                        [key |-> handed[i].key, values |-> heap[handed[i].values]]],
                                    <<>>)
                  IN  [status |-> "ok", heap |-> copies.heap,
                       stored |-> [data |-> copies.data, length |-> lengths[1]]]

\* an operation that builds the lists of its result itself (filter, agg and
\* join append to new lists) and hands them to DataFrame(...)
StoreBuilt(heap, outcome) ==
    IF outcome.status # "ok" \/ outcome.df.data = <<>>
    THEN [status |-> outcome.status, heap |-> heap, stored |-> EmptyDF]
    ELSE LET built == Allocate(heap, outcome.df.data, <<>>)
         IN  InitStorage(built.heap, built.data)

\* project hands the table's own list objects to DataFrame(...) (line 158)
StoreProjected(heap, stored, columns) ==
    IF ~(\A i \in 1..Len(columns) : Has(stored.data, columns[i]))
    THEN [status |-> "ColumnNotFound", heap |-> heap, stored |-> EmptyDF]
    ELSE InitStorage(heap, DictOf(stored.data, columns, <<>>))

\* storage is not followed
NoMem ==
    [heap |-> <<>>, input |-> EmptyDF, output |-> EmptyDF, made_by |-> "none",
     view |-> 0, view_of |-> "none", original |-> EmptyDF]

(***************************************************************************)
(* The state machine.  `self` is the table the calls are made on; `call`   *)
(* is the last call with its arguments, `result` what it returned or       *)
(* raised, and `grouped` the GroupedDataFrame that df.group_by(cols) built *)
(* for the last df.group_by(cols).agg(spec).                               *)
(***************************************************************************)
NoCall ==
    [op |-> "none", data |-> <<>>, name |-> "", pred |-> [kind |-> "", col |-> "", val |-> None],
     columns |-> <<>>, aggregations |-> <<>>, other |-> EmptyDF, on |-> <<>>, how |-> "",
     suffixes |-> <<"", "">>, lorder |-> <<>>, rorder |-> <<>>,
     text |-> <<>>, has_header |-> FALSE, rows |-> <<>>, terminator |-> <<>>]

\* no table yet
Init ==
    /\ self = EmptyDF
    /\ grouped = NoHandle
    /\ call = NoCall
    /\ result = NoResult
    /\ mem = NoMem

\* any table the constructor accepts
InitTables ==
    /\ self \in Tables
    /\ grouped = NoHandle
    /\ call = NoCall
    /\ result = NoResult
    /\ mem = NoMem

\* the last call's result has been taken or dropped: the next call can be made
Idle == call.op = "none"

\* DataFrame(data)
Construct ==
    /\ Idle
    /\ \E data \in DataMaps :
        /\ result' = NewDataFrame(data)
        /\ call' = [NoCall EXCEPT !.op = "construct", !.data = data]
        /\ grouped' = NoHandle
        /\ UNCHANGED <<self, mem>>

\* df = df.filter(...): the caller goes on with the table a call returned
\* (kept within the bounds of the model)
Rebind ==
    /\ result.status = "ok"
    /\ call.op \in {"construct", "filter", "project", "agg", "group_by_agg", "join"}
    /\ result.df \in Tables
    /\ self' = result.df
    /\ grouped' = NoHandle
    /\ call' = NoCall
    /\ result' = NoResult
    /\ UNCHANGED mem

\* df[name]
GetColumn ==
    /\ Idle
    /\ \E name \in Names :
        /\ result' = GetItem(self, name)
        /\ call' = [NoCall EXCEPT !.op = "getitem", !.name = name]
        /\ grouped' = NoHandle
        /\ UNCHANGED <<self, mem>>

\* df.filter(condition)
Filter ==
    /\ Idle
    /\ \E P \in Predicates :
        /\ result' = FilterDF(self, P)
        /\ call' = [NoCall EXCEPT !.op = "filter", !.pred = P]
        /\ grouped' = NoHandle
        /\ UNCHANGED <<self, mem>>

\* df.project(columns)
Project ==
    /\ Idle
    /\ \E columns \in ColumnLists :
        /\ result' = ProjectDF(self, columns)
        /\ call' = [NoCall EXCEPT !.op = "project", !.columns = columns]
        /\ grouped' = NoHandle
        /\ UNCHANGED <<self, mem>>

\* df.agg(aggregations)
Agg ==
    /\ Idle
    /\ \E aggregations \in AggSpecs :
        /\ result' = AggDF(self, aggregations)
        /\ call' = [NoCall EXCEPT !.op = "agg", !.aggregations = aggregations]
        /\ grouped' = NoHandle
        /\ UNCHANGED <<self, mem>>

\* df.group_by(columns).agg(aggregations); when group_by raises there is no
\* handle and agg is not called
GroupByAgg ==
    /\ Idle
    /\ \E columns \in ColumnLists, aggregations \in AggSpecs :
        LET g == GroupBy(self, columns)
        IN  /\ grouped' = g.handle
            /\ result' = IF g.status = "ok" THEN GroupedAgg(g.handle, aggregations)
                         ELSE Raise(g.status)
            /\ call' = [NoCall EXCEPT !.op = "group_by_agg", !.columns = columns,
                                      !.aggregations = aggregations]
            /\ UNCHANGED <<self, mem>>

\* df.join(other, on, how, suffixes)
Join ==
    /\ Idle
    /\ \E other \in {t \in Tables : self.length * t.length <= MaxJoinPairs},
          on \in OnLists, how \in Hows, suffixes \in SuffixPairs :
        \E lorder \in Orders(KeySet(self.data) \ {on[j] : j \in 1..Len(on)}),
           rorder \in Orders(KeySet(other.data) \ {on[j] : j \in 1..Len(on)}) :
            /\ result' = JoinDF(self, other, on, how, suffixes, lorder, rorder)
            /\ call' = [NoCall EXCEPT !.op = "join", !.other = other, !.on = on, !.how = how,
                                      !.suffixes = suffixes, !.lorder = lorder, !.rorder = rorder]
            /\ grouped' = NoHandle
            /\ UNCHANGED <<self, mem>>

Next ==
    \/ Construct
    \/ Rebind
    \/ GetColumn
    \/ Filter
    \/ Project
    \/ Agg
    \/ GroupByAgg
    \/ Join

\* from the empty table, every call and every rebinding
Spec == Init /\ [][Next]_vars

NextOps ==
    \/ GetColumn
    \/ Filter
    \/ Project
    \/ Agg
    \/ GroupByAgg

\* the single-table calls on every table
SpecOps == InitTables /\ [][NextOps]_vars

\* join of every pair of tables
SpecJoin == InitTables /\ [][Join]_vars

\* _parse_csv(text)
ParseText ==
    /\ Idle
    /\ \E text \in Texts :
        /\ result' = ParseCsv(text, DefaultDelimiter, DefaultQuote)
        /\ call' = [NoCall EXCEPT !.op = "parse_csv", !.text = text]
        /\ UNCHANGED <<self, grouped, mem>>

\* _parse_csv(text) on the text generated from a list of rows
ParseGenerated ==
    /\ Idle
    /\ \E rows \in RowLists, terminator \in Terminators :
        LET text == WriteCsv(rows, terminator, DefaultDelimiter, DefaultQuote)
        IN  /\ result' = ParseCsv(text, DefaultDelimiter, DefaultQuote)
            /\ call' = [NoCall EXCEPT !.op = "parse_csv", !.text = text, !.rows = rows,
                                      !.terminator = terminator]
            /\ UNCHANGED <<self, grouped, mem>>

\* read_csv(source, has_header=...)
ReadCsvText ==
    /\ Idle
    /\ \E text \in Texts, has_header \in BOOLEAN :
        /\ result' = ReadCsv(text, has_header)
        /\ call' = [NoCall EXCEPT !.op = "read_csv", !.text = text, !.has_header = has_header]
        /\ UNCHANGED <<self, grouped, mem>>

\* load_data_as_dataframe(csv_path)
LoadText ==
    /\ Idle
    /\ \E text \in Texts :
        /\ result' = LoadDataAsDataFrame(text)
        /\ call' = [NoCall EXCEPT !.op = "load", !.text = text]
        /\ UNCHANGED <<self, grouped, mem>>

NextCsv ==
    \/ ParseText
    \/ ParseGenerated
    \/ ReadCsvText
    \/ LoadText

\* the CSV reader on every text
SpecCsv == Init /\ [][NextCsv]_vars

(***************************************************************************)
(* The calls with the column storage followed: one call on a table, then   *)
(* the caller takes a column of the table or of the returned table with    *)
(* df[name] and changes the list it was given.                             *)
(***************************************************************************)
\* a table the constructor accepts, its columns allocated
InitStored ==
    /\ self \in Tables
    /\ grouped = NoHandle
    /\ call = NoCall
    /\ result = NoResult
    /\ mem = LET a == Allocate(<<>>, self.data, <<>>)
             IN  [NoMem EXCEPT !.heap = a.heap,
                               !.input = [data |-> a.data, length |-> self.length],
                               !.original = self]

\* the state after the call op whose storage outcome is st
Stored(op, st) ==
    /\ mem' = [mem EXCEPT !.heap = st.heap, !.output = st.stored, !.made_by = op]
    /\ self' = Deref(st.heap, mem.input)
    /\ result' = IF st.status = "ok" THEN Ok(Deref(st.heap, st.stored)) ELSE Raise(st.status)
    /\ grouped' = NoHandle

\* the aggregation specs of the calls whose storage is followed
StoredAggSpecs == {sp \in AggSpecs : Len(sp) <= 1}

\* df.project(columns)
ProjectStored ==
    /\ Idle
    /\ \E columns \in ColumnLists :
        /\ Stored("project", StoreProjected(mem.heap, mem.input, columns))
        /\ call' = [NoCall EXCEPT !.op = "project", !.columns = columns]

\* df.filter(condition)
FilterStored ==
    /\ Idle
    /\ \E P \in Predicates :
        /\ Stored("filter", StoreBuilt(mem.heap, FilterDF(self, P)))
        /\ call' = [NoCall EXCEPT !.op = "filter", !.pred = P]

\* df.agg(aggregations)
AggStored ==
    /\ Idle
    /\ \E aggregations \in StoredAggSpecs :
        /\ Stored("agg", StoreBuilt(mem.heap, AggDF(self, aggregations)))
        /\ call' = [NoCall EXCEPT !.op = "agg", !.aggregations = aggregations]

\* df.group_by(columns).agg(aggregations)
GroupByAggStored ==
    /\ Idle
    /\ \E columns \in ColumnLists, aggregations \in StoredAggSpecs :
        LET g == GroupBy(self, columns)
        IN  /\ Stored("group_by_agg", StoreBuilt(mem.heap,
                        IF g.status = "ok" THEN GroupedAgg(g.handle, aggregations)
                        ELSE Raise(g.status)))
            /\ call' = [NoCall EXCEPT !.op = "group_by_agg", !.columns = columns,
                                      !.aggregations = aggregations]

\* df.join(df, on, how, suffixes): the table joined with itself
JoinStored ==
    /\ Idle
    /\ self.length * self.length <= MaxJoinPairs
    /\ \E on \in OnLists, how \in Hows, suffixes \in SuffixPairs :
        \E lorder \in Orders(KeySet(self.data) \ {on[j] : j \in 1..Len(on)}),
           rorder \in Orders(KeySet(self.data) \ {on[j] : j \in 1..Len(on)}) :
            /\ Stored("join", StoreBuilt(mem.heap, JoinDF(self, self, on, how, suffixes, lorder, rorder)))
            /\ call' = [NoCall EXCEPT !.op = "join", !.other = self, !.on = on, !.how = how,
                                      !.suffixes = suffixes, !.lorder = lorder, !.rorder = rorder]

\* the caller holds no list yet
NoView == mem.view = 0

\* column = df[name] on the table: __getitem__ returns self._data[key], the
\* list object of the column (line 75)
ViewInput ==
    /\ Idle
    /\ NoView
    /\ \E name \in Names :
        /\ result' = GetItem(self, name)
        /\ mem' = IF Has(mem.input.data, name)
                  THEN [mem EXCEPT !.view = Get(mem.input.data, name), !.view_of = "input"]
                  ELSE mem
        /\ call' = [NoCall EXCEPT !.op = "getitem", !.name = name]
        /\ UNCHANGED <<self, grouped>>

\* column = out[name] on the table the call returned
ViewOutput ==
    /\ call.op \in {"project", "filter", "agg", "group_by_agg", "join"}
    /\ result.status = "ok"
    /\ NoView
    /\ \E name \in KeySet(mem.output.data) :
        /\ result' = GetItem(Deref(mem.heap, mem.output), name)
        /\ mem' = [mem EXCEPT !.view = Get(mem.output.data, name), !.view_of = "output"]
        /\ call' = [NoCall EXCEPT !.op = "getitem", !.name = name]
        /\ UNCHANGED <<self, grouped>>

\* the list after column.append(v), column.pop() or column[0] = v
Mutated(values, kind, v) ==
    IF kind = "append" THEN Append(values, v)
    ELSE IF values = <<>> THEN values
    ELSE IF kind = "pop" THEN SubSeq(values, 1, Len(values) - 1)
    ELSE [values EXCEPT ![1] = v]

\* the caller changes the list it was given
ViewMutated ==
    /\ call.op = "getitem"
    /\ ~NoView
    /\ \E kind \in {"append", "pop", "setitem"}, v \in CellValues :
        LET heap == [mem.heap EXCEPT ![mem.view] = Mutated(mem.heap[mem.view], kind, v)]
        IN  /\ mem' = [mem EXCEPT !.heap = heap]
            /\ self' = Deref(heap, mem.input)
            /\ result' = OkValue(heap[mem.view])
            /\ call' = [call EXCEPT !.op = kind]
            /\ UNCHANGED grouped

NextStored ==
    \/ ProjectStored
    \/ FilterStored
    \/ AggStored
    \/ GroupByAggStored
    \/ JoinStored
    \/ ViewInput
    \/ ViewOutput
    \/ ViewMutated

\* one call, then a column taken and changed by the caller
SpecStored == InitStored /\ [][NextStored]_vars

(***************************************************************************)
(* Outer join of tables of up to OuterRows rows, so that one key can match *)
(* several rows on both sides while other rows of both sides are           *)
(* unmatched.  Each table has the key column "a" and the column "a_x",     *)
(* which holds the number of the row.                                      *)
(***************************************************************************)
OuterRows == 3

\* three keys: one on both sides, one on the left only, one on the right only
OuterKeys == {IntV(1), IntV(2), StrV("NA")}

OuterTables ==
    {NewDataFrame(<<[key |-> "a", values |-> keys],
                    [key |-> "a_x", values |-> [i \in 1..Len(keys) |-> IntV(i)]]>>).df :
        keys \in UNION {[1..n -> OuterKeys] : n \in 0..OuterRows}}

InitOuter ==
    /\ self \in OuterTables
    /\ grouped = NoHandle
    /\ call = NoCall
    /\ result = NoResult
    /\ mem = NoMem

\* df.join(other, on='a', how='outer')
JoinOuter ==
    /\ Idle
    /\ \E other \in OuterTables :
        /\ result' = JoinDF(self, other, <<"a">>, "outer", <<"_x", "_y">>, <<"a_x">>, <<"a_x">>)
        /\ call' = [NoCall EXCEPT !.op = "join", !.other = other, !.on = <<"a">>,
                                  !.how = "outer", !.suffixes = <<"_x", "_y">>,
                                  !.lorder = <<"a_x">>, !.rorder = <<"a_x">>]
        /\ grouped' = NoHandle
        /\ UNCHANGED <<self, mem>>

SpecOuter == InitOuter /\ [][JoinOuter]_vars

(***************************************************************************)
(* agg on tables that have a column with the name of an aggregated output  *)
(* column: "a" + "_" + "sum" = "a_sum".                                    *)
(***************************************************************************)
AggNames == {"a", "a_sum"}

AggNameTables ==
    {NewDataFrame(d).df :
        d \in UNION {{[i \in 1..Len(ns) |-> [key |-> ns[i], values |-> vs[i]]] :
                        vs \in {v \in [1..Len(ns) -> Lists] :
                                    \A i \in 1..Len(ns) : Len(v[i]) = Len(v[1])}} :
                    ns \in {n \in UNION {[1..k -> AggNames] : k \in 1..MaxCols} :
                                \A i, j \in 1..Len(n) : n[i] = n[j] => i = j}}}

AggNameFuncLists == {<<"count">>, <<"sum">>, <<"max">>, <<"sum", "count">>, <<"count", "sum">>}

\* the specs over one column or two
AggNameSpecs ==
    {<<[key |-> c, values |-> fs]>> : c \in AggNames, fs \in AggNameFuncLists}
    \cup {sp \in {<<[key |-> c1, values |-> f1], [key |-> c2, values |-> f2]>> :
                    c1 \in AggNames, c2 \in AggNames,
                    f1 \in AggNameFuncLists, f2 \in AggNameFuncLists} :
            sp[1].key # sp[2].key}

InitAggNames ==
    /\ self \in AggNameTables
    /\ grouped = NoHandle
    /\ call = NoCall
    /\ result = NoResult
    /\ mem = NoMem

\* df.agg(aggregations)
AggNamed ==
    /\ Idle
    /\ \E aggregations \in AggNameSpecs :
        /\ result' = AggDF(self, aggregations)
        /\ call' = [NoCall EXCEPT !.op = "agg", !.aggregations = aggregations]
        /\ grouped' = NoHandle
        /\ UNCHANGED <<self, mem>>

SpecAggNames == InitAggNames /\ [][AggNamed]_vars

(***************************************************************************)
(* Properties.  Each is a predicate of the state right after a call: the   *)
(* table in `self`, the arguments in `call`, the outcome in `result`.      *)
(***************************************************************************)
Returned == result.status = "ok"

OnSet == {call.on[j] : j \in 1..Len(call.on)}

\* the row indices of df
Rows(df) == 1..df.length

\* the cells of values at the indices in keep, in their order
RECURSIVE Pick(_, _, _)
Pick(values, keep, i) ==
    IF i > Len(values) THEN <<>>
    ELSE (IF i \in keep THEN <<values[i]>> ELSE <<>>) \o Pick(values, keep, i + 1)

\* C1: filter(T,P) returns exactly the rows of T for which P is true, in
\* their original order, with the column set (and order) of T, for every
\* predicate that is defined on the rows of T; also when no row satisfies P
\* and when T has columns and no rows.
C1_FilterKeepsRowsAndColumns ==
    (call.op = "filter" /\ (call.pred.kind = "const" \/ Has(self.data, call.pred.col)))
    => LET keep == {i \in Rows(self) : Condition(call.pred, RowAt(self, i)) = "true"}
       IN  /\ Returned
           /\ Columns(result.df) = Columns(self)
           /\ result.df.length = Cardinality(keep)
           /\ \A c \in KeySet(self.data) :
                Get(result.df.data, c) = Pick(Get(self.data, c), keep, 1)

\* the call is a join in mode `how` on key columns that exist on both sides
ValidJoin(how) ==
    /\ call.op = "join"
    /\ call.how = how
    /\ Len(call.on) > 0
    /\ \A c \in OnSet : Has(self.data, c) /\ Has(call.other.data, c)

\* the call leaves `suffixes` at its default ('_x', '_y')
DefaultSuffixes == call.suffixes = <<"_x", "_y">>

\* the (left row, right row) pairs with equal key
MatchPairs ==
    {p \in Rows(self) \X Rows(call.other) :
        KeyAt(self, call.on, p[1]) = KeyAt(call.other, call.on, p[2])}

UnmatchedLeftRows == {i \in Rows(self) : \A p \in MatchPairs : p[1] # i}

UnmatchedRightRows == {i \in Rows(call.other) : \A p \in MatchPairs : p[2] # i}

\* C2: join(L, R, on=k, how='inner') returns a table whose row count is the
\* sum over the shared keys of (left rows with the key) x (right rows with
\* the key), that is the number of matching (left row, right row) pairs.
C2_InnerJoinRowCount ==
    (ValidJoin("inner") /\ DefaultSuffixes)
    => (Returned /\ result.df.length = Cardinality(MatchPairs))

LeftNonKey == KeySet(self.data) \ OnSet

RightNonKey == KeySet(call.other.data) \ OnSet

Overlap == LeftNonKey \cap RightNonKey

LeftName(c) == IF c \in Overlap THEN c \o call.suffixes[1] ELSE c

RightName(c) == IF c \in Overlap THEN c \o call.suffixes[2] ELSE c

\* C3: join(L, R, on=k, how='left') returns the inner join's rows plus
\* exactly one row per left row without a match, and that row carries the
\* left row's key and values with every right non-key column None.
C3_LeftJoinRowCount ==
    (ValidJoin("left") /\ DefaultSuffixes)
    => /\ Returned
       /\ result.df.length = Cardinality(MatchPairs) + Cardinality(UnmatchedLeftRows)
       /\ \A i \in UnmatchedLeftRows :
            \E r \in Rows(result.df) :
                /\ \A c \in OnSet : Get(result.df.data, c)[r] = Get(self.data, c)[i]
                /\ \A c \in LeftNonKey :
                        Get(result.df.data, LeftName(c))[r] = Get(self.data, c)[i]
                /\ \A c \in RightNonKey : Get(result.df.data, RightName(c))[r] = None

\* C4: the row count of join(L, R, on=k, how='outer') is the inner join's
\* plus the unmatched left rows plus the unmatched right rows.
C4_OuterJoinRowCount ==
    (ValidJoin("outer") /\ DefaultSuffixes)
    => /\ Returned
       /\ result.df.length = Cardinality(MatchPairs) + Cardinality(UnmatchedLeftRows)
                                + Cardinality(UnmatchedRightRows)

\* the call is df.group_by(cols).agg({X: f}) with cols and X columns of df
GroupedSingle(f) ==
    /\ call.op = "group_by_agg"
    /\ \A j \in 1..Len(call.columns) : Has(self.data, call.columns[j])
    /\ Len(call.aggregations) = 1
    /\ call.aggregations[1].values = <<f>>
    /\ Has(self.data, call.aggregations[1].key)

\* C5: group_by(cols).agg({X:'count'}) has one row per distinct value tuple of
\* cols and the counts (the output column X) sum to the row count of T, also
\* when X is one of cols.
C5_GroupCount ==
    GroupedSingle("count")
    => /\ Returned
       /\ result.df.length = Cardinality({KeyAt(self, call.columns, i) : i \in Rows(self)})
       /\ self.length > 0 =>
            /\ Has(result.df.data, call.aggregations[1].key)
            /\ SumFrom(0, Get(result.df.data, call.aggregations[1].key)) = OkValue(IntV(self.length))

\* every column of df has as many cells as the row count that shape reports
WellFormed(df) == \A i \in 1..Len(df.data) : Len(df.data[i].values) = Shape(df)[1]

DataLengths == {Len(call.data[i].values) : i \in 1..Len(call.data)}

\* C6: the table the calls are made on and every table a call returns have
\* all columns of one length, the row count of shape; the constructor raises
\* SchemaError (and yields no table) exactly when the columns it is given
\* differ in length, and the empty column map gives the table of shape (0,0).
C6_ColumnsEqualLength ==
    /\ WellFormed(self)
    /\ Returned => WellFormed(result.df)
    /\ call.op = "construct" =>
        /\ Cardinality(DataLengths) > 1 => (result.status = "SchemaError" /\ result.df = EmptyDF)
        /\ Cardinality(DataLengths) <= 1 => (Returned /\ Columns(result.df) = Keys(call.data))
        /\ call.data = <<>> => (Returned /\ Shape(result.df) = <<0, 0>>)

\* C6 witness: on a table that a call returned and the caller went on with, a
\* join has returned a table with rows and several columns
C6_Witness ==
    /\ self.length > 0
    /\ call.op = "join"
    /\ Returned
    /\ result.df.length > 1
    /\ Len(result.df.data) > 2

NumericAggregators == {"sum", "mean", "min", "max", "std", "var"}

\* the call aggregates column X of df with the one aggregator f, on the
\* table or on a grouped handle over columns of df
SingleAgg(f) ==
    /\ call.op \in {"agg", "group_by_agg"}
    /\ \A j \in 1..Len(call.columns) : Has(self.data, call.columns[j])
    /\ Len(call.aggregations) = 1
    /\ call.aggregations[1].values = <<f>>
    /\ Has(self.data, call.aggregations[1].key)

\* C7: a numeric aggregator over a column that holds a value that is not a
\* number raises TypeConversionError on the table and on a grouped handle.
C7_NonNumericRaises ==
    \A f \in NumericAggregators :
        (/\ SingleAgg(f)
         /\ \E i \in Rows(self) : Get(self.data, call.aggregations[1].key)[i].kind # "int")
        => result.status = "TypeConversionError"

\* every aggregator of the spec is 'count', which accepts every column
CountsOnly ==
    \A k \in 1..Len(call.aggregations) :
        \A j \in 1..Len(call.aggregations[k].values) : call.aggregations[k].values[j] = "count"

AggColumnMissing == \E k \in 1..Len(call.aggregations) : ~Has(self.data, call.aggregations[k].key)

\* C8: a call given the name of a column the table does not have raises
\* ColumnNotFound and returns no table, whatever the table's row count:
\* df[name], project, group_by, agg on the table and on the handle, and join
\* with an `on` column missing on either side.
C8_MissingColumnRaises ==
    /\ (call.op = "getitem" /\ ~Has(self.data, call.name))
            => result.status = "ColumnNotFound"
    /\ (call.op = "project" /\ \E j \in 1..Len(call.columns) : ~Has(self.data, call.columns[j]))
            => result.status = "ColumnNotFound"
    /\ (call.op = "group_by_agg" /\ \E j \in 1..Len(call.columns) : ~Has(self.data, call.columns[j]))
            => (result.status = "ColumnNotFound" /\ ~grouped.live)
    /\ (call.op \in {"agg", "group_by_agg"} /\ CountsOnly /\ AggColumnMissing)
            => result.status = "ColumnNotFound"
    /\ (call.op = "join" /\ \E c \in OnSet : ~Has(self.data, c) \/ ~Has(call.other.data, c))
            => result.status = "ColumnNotFound"

\* C9: an aggregator that is none of sum, mean, min, max, count, std, var
\* raises UnknownAggregator and no table is returned, on the table and on a
\* grouped handle, also for a table without rows.
C9_UnknownAggregatorRaises ==
    SingleAgg("median") => result.status = "UnknownAggregator"

\* C10: in every join mode the output columns are the `on` columns under
\* their own names, the non-key columns of one side only under their own
\* names, and each non-key column of both sides twice: name + left suffix
\* with the left values and name + right suffix with the right values.
C10_JoinColumnNames ==
    \A how \in {"inner", "left", "right", "outer"} :
        ValidJoin(how)
        => /\ Returned
           /\ KeySet(result.df.data) =
                OnSet \cup {LeftName(c) : c \in LeftNonKey} \cup {RightName(c) : c \in RightNonKey}
           /\ Len(result.df.data) =
                Cardinality(OnSet) + Cardinality(LeftNonKey) + Cardinality(RightNonKey)

\* the number of left rows whose key equals the key of right row r
LeftMatchCount(r) == Cardinality({p \in MatchPairs : p[2] = r})

RECURSIVE Repeat(_, _)
\* n copies of v
Repeat(v, n) == IF n = 0 THEN <<>> ELSE <<v>> \o Repeat(v, n - 1)

RECURSIVE RightDriven(_, _)
\* the cells of right column c in a right join: right row r once per matching
\* left row, once when there is none, the right rows in their order
RightDriven(c, r) ==
    IF r > call.other.length THEN <<>>
    ELSE Repeat(Get(call.other.data, c)[r],
                IF LeftMatchCount(r) = 0 THEN 1 ELSE LeftMatchCount(r))
         \o RightDriven(c, r + 1)

\* C11: join(L, R, on=k, how='right') goes through the right rows in order;
\* a right row gives one output row per left row with an equal key, and a
\* right row without a match gives exactly one output row with its key, its
\* right values and None in every left non-key column; no other row (so no
\* unmatched left row) is in the output.
C11_RightJoinMirrorsLeft ==
    (ValidJoin("right") /\ DefaultSuffixes)
    => /\ Returned
       /\ result.df.length = Cardinality(MatchPairs) + Cardinality(UnmatchedRightRows)
       /\ result.df.length > 0 =>
            /\ \A c \in OnSet : Get(result.df.data, c) = RightDriven(c, 1)
            /\ \A c \in RightNonKey : Get(result.df.data, RightName(c)) = RightDriven(c, 1)
            /\ \A i \in UnmatchedRightRows :
                \E r \in Rows(result.df) :
                    /\ \A c \in OnSet : Get(result.df.data, c)[r] = Get(call.other.data, c)[i]
                    /\ \A c \in RightNonKey :
                            Get(result.df.data, RightName(c))[r] = Get(call.other.data, c)[i]
                    /\ \A c \in LeftNonKey : Get(result.df.data, LeftName(c))[r] = None

\* the call parsed a text that was generated from the rows in call.rows
Generated == call.op = "parse_csv" /\ call.terminator # <<>>

\* C12 as stated: parsing the generated text returns exactly the rows it was
\* generated from, for every list of rows.
C12_RoundTripAllRows == Generated => result = OkValue(call.rows)

\* a row that is one empty field
BlankRow == <<<<>>>>

\* C12: parsing the text generated from a list of rows returns the rows that
\* are not a single empty field, in their order and with exactly their field
\* values (delimiters, quotes and newlines in the fields included); a row
\* that is a single empty field is written as "" and is dropped.
C12_RoundTripExceptBlankRows ==
    Generated => result = OkValue(SelectSeq(call.rows, LAMBDA r : r # BlankRow))

\* C12 witness: a row with a quote in one field and a newline in another has
\* been written and parsed
C12_Witness ==
    /\ Generated
    /\ result.status = "ok"
    /\ \E r \in 1..Len(call.rows) :
        /\ \E f \in 1..Len(call.rows[r]) : \E k \in 1..Len(call.rows[r][f]) :
                call.rows[r][f][k] = DefaultQuote
        /\ \E f \in 1..Len(call.rows[r]) : \E k \in 1..Len(call.rows[r][f]) :
                call.rows[r][f][k] \in {"\n", "\r", DefaultDelimiter}

\* the addresses of the list objects of a stored table
Addresses(stored) == {stored.data[i].values : i \in 1..Len(stored.data)}

\* the caller has changed the list it holds
ViewChanged == call.op \in {"append", "pop", "setitem"}

\* C13: a call (filter, project, agg, group_by().agg, join), returning or
\* raising, leaves the names, order and cells of the table it was made on as
\* they were; the returned table has no list object in common with it, and
\* it is still as it was after the caller changed a column of the returned
\* table.
C13_InputsUntouched ==
    mem.view_of # "input"
    => /\ self = mem.original
       /\ Deref(mem.heap, mem.input) = mem.original
       /\ Addresses(mem.output) \cap Addresses(mem.input) = {}

\* C13 witness: the caller has appended to a column of a table that project
\* returned for a table with rows
C13_Witness ==
    /\ mem.made_by = "project"
    /\ mem.view_of = "output"
    /\ call.op = "append"
    /\ self.length > 0
    /\ \E i \in 1..Len(mem.output.data) :
            Len(mem.heap[mem.output.data[i].values]) > self.length

\* C14: whatever the caller does with the sequence that df[name] returned
\* (append, remove, replace), the table's cells and row count are as they
\* were and its columns are all of the length of shape.
C14_ColumnViewReadOnly ==
    (mem.view_of = "input" /\ ViewChanged)
    => /\ self = mem.original
       /\ WellFormed(self)

\* the call is project with a list A of columns of the table
ProjectOfColumns ==
    /\ call.op = "project"
    /\ \A j \in 1..Len(call.columns) : Has(self.data, call.columns[j])

\* C15: with A = call.columns, for every list B of columns of T and both
\* orders of the union, project(project(T, A u B), A) is what project(T, A)
\* returned: the same columns in the same order with the same cells; A may
\* be empty.
C15_ProjectIdempotent ==
    ProjectOfColumns
    => /\ Returned
       /\ \A B \in {b \in ColumnLists : \A j \in 1..Len(b) : Has(self.data, b[j])} :
            \A union \in {call.columns \o B, B \o call.columns} :
                /\ ProjectDF(self, union).status = "ok"
                /\ ProjectDF(ProjectDF(self, union).df, call.columns) = result

\* C15 witness: one column has been projected out of a table with two
\* columns and rows
C15_Witness ==
    /\ ProjectOfColumns
    /\ Returned
    /\ Len(call.columns) = 1
    /\ Len(self.data) = 2
    /\ self.length > 0
    /\ result.df.length = self.length

\* the aggregated output columns of the spec, in its order
RECURSIVE AggregatedNames(_)
AggregatedNames(aggregations) ==
    IF aggregations = <<>> THEN <<>>
    ELSE LET e == Head(aggregations)
         IN  [j \in 1..Len(e.values) |-> ResultKey(e.key, e.values, e.values[j])]
             \o AggregatedNames(Tail(aggregations))

\* the call is df.group_by(cols).agg(spec) on a table with rows, with one
\* or more distinct group columns of df and a spec over columns of df whose
\* aggregators accept every group
GroupedAggDefined ==
    /\ call.op = "group_by_agg"
    /\ self.length > 0
    /\ Len(call.columns) > 0
    /\ \A j \in 1..Len(call.columns) : Has(self.data, call.columns[j])
    /\ \A i, j \in 1..Len(call.columns) : call.columns[i] = call.columns[j] => i = j
    /\ \A k \in 1..Len(call.aggregations) :
        /\ Has(self.data, call.aggregations[k].key)
        /\ \A j \in 1..Len(call.aggregations[k].values) :
            \A g \in 1..Len(grouped.groups) :
                ApplyAggregation(
                    [x \in 1..Len(grouped.groups[g].values) |->
                        Get(self.data, call.aggregations[k].key)[grouped.groups[g].values[x]]],
                    call.aggregations[k].values[j]).status = "ok"

\* C16: agg on a grouped handle of a table with rows returns one row per
\* group, the groups in the
\* order in which their keys first appear in the table, and its columns are
\* the group-by columns in their given order (holding the group keys)
\* followed by the aggregated columns, for every spec, also one that
\* aggregates a group-by column.
C16_GroupedAggRowsAndColumns ==
    GroupedAggDefined
    => /\ Returned
       /\ result.df.length = Len(grouped.groups)
       /\ Columns(result.df) = call.columns \o AggregatedNames(call.aggregations)
       /\ \A j \in 1..Len(call.columns) :
            Get(result.df.data, call.columns[j])
                = [g \in 1..Len(grouped.groups) |-> grouped.groups[g].key[j]]

\* the call is df.agg(spec) with a spec over columns of df whose aggregators
\* all accept their column
AggDefined ==
    /\ call.op = "agg"
    /\ \A k \in 1..Len(call.aggregations) :
        /\ Has(self.data, call.aggregations[k].key)
        /\ \A j \in 1..Len(call.aggregations[k].values) :
            ApplyAggregation(Get(self.data, call.aggregations[k].key),
                             call.aggregations[k].values[j]).status = "ok"

\* C17: agg on a table returns one row and one output column per (column,
\* aggregator) pair of the spec, named <column>_<aggregator> when the column
\* has more than one aggregator and <column> otherwise; no two pairs end in
\* one output column.
C17_AggOneColumnPerPair ==
    AggDefined
    => /\ Returned
       /\ result.df.length = 1
       /\ Columns(result.df) = AggregatedNames(call.aggregations)

\* the rows _parse_csv returns for the text of the call
ParsedRows == ParseCsv(call.text, DefaultDelimiter, DefaultQuote).value

\* the call is read_csv(text, has_header=True) on a text that parses to at
\* least a header row
HeaderRead ==
    /\ call.op = "read_csv"
    /\ call.has_header
    /\ ParseCsv(call.text, DefaultDelimiter, DefaultQuote).status = "ok"
    /\ ParsedRows # <<>>

\* C18: with a header requested the first parsed row is the list of names
\* and every later row becomes a record with exactly len(header) entries,
\* keyed by the names: the i-th name maps to the row's i-th field, or to ""
\* when the row is shorter; fields beyond the header are left out; no row is
\* rejected or dropped for its length.
C18_HeaderRecords ==
    HeaderRead
    => LET header == ParsedRows[1]
       IN  /\ result.status = "ok"
           /\ Len(result.value) = Len(ParsedRows) - 1
           /\ \A k \in 1..(Len(ParsedRows) - 1) :
                LET r == ParsedRows[k + 1]
                    record == result.value[k]
                IN  /\ Len(record) = Len(header)
                    /\ KeySet(record) = {header[i] : i \in 1..Len(header)}
                    /\ \A i \in 1..Len(header) :
                        Get(record, header[i]) = IF i <= Len(r) THEN r[i] ELSE <<>>

\* text[i] lies inside a quoted span: an odd number of quote characters
\* precedes it (a doubled quote counts twice)
InQuotesAt(text, i) ==
    Cardinality({k \in 1..(i - 1) : text[k] = DefaultQuote}) % 2 = 1

RECURSIVE Reterminated(_, _, _)
\* the text from position i on with every terminator outside quotes written
\* the other way: to = "crlf" writes each "\n" that is not the second half of
\* a "\r\n" as "\r\n", to = "lf" writes each "\r\n" as "\n"
Reterminated(text, i, to) ==
    IF i > Len(text) THEN <<>>
    ELSE IF InQuotesAt(text, i) THEN <<text[i]>> \o Reterminated(text, i + 1, to)
    ELSE IF to = "crlf" /\ text[i] = "\n" /\ (i = 1 \/ text[i - 1] # "\r")
    THEN <<"\r", "\n">> \o Reterminated(text, i + 1, to)
    ELSE IF to = "lf" /\ text[i] = "\r" /\ i + 1 <= Len(text) /\ text[i + 1] = "\n"
    THEN <<"\n">> \o Reterminated(text, i + 2, to)
    ELSE <<text[i]>> \o Reterminated(text, i + 1, to)

\* the number of "\r\n" inside the quoted spans of the text
QuotedCrlfs(text) ==
    Cardinality({i \in 1..(Len(text) - 1) :
                    text[i] = "\r" /\ text[i + 1] = "\n" /\ InQuotesAt(text, i)})

\* the number of "\r\n" in the field values of the rows
FieldCrlfs(rows) ==
    Cardinality({p \in UNION {UNION {{<<r, f, k>> : k \in 1..(Len(rows[r][f]) - 1)} :
                                        f \in 1..Len(rows[r])} : r \in 1..Len(rows)} :
                    /\ rows[p[1]][p[2]][p[3]] = "\r"
                    /\ rows[p[1]][p[2]][p[3] + 1] = "\n"})

\* C19: "\n" and "\r\n" are the same record terminator: writing every "\n"
\* terminator outside quotes as "\r\n", or every "\r\n" terminator as "\n",
\* leaves the outcome of the parse (the rows, or the error) unchanged, and
\* every "\r\n" inside a quoted field is in the field value as it was written.
C19_LfAndCrlfAlike ==
    call.op = "parse_csv"
    => /\ ParseCsv(Reterminated(call.text, 1, "crlf"), DefaultDelimiter, DefaultQuote) = result
       /\ ParseCsv(Reterminated(call.text, 1, "lf"), DefaultDelimiter, DefaultQuote) = result
       /\ result.status = "ok" => FieldCrlfs(result.value) = QuotedCrlfs(call.text)

\* a parsed text with a "\r\n" inside a quoted field and a "\n" terminator
C19_Witness ==
    /\ call.op = "parse_csv"
    /\ result.status = "ok"
    /\ result.value # <<>>
    /\ QuotedCrlfs(call.text) > 0
    /\ Reterminated(call.text, 1, "crlf") # call.text

\* the scanner states of the parse of the call's text in which the loop is
\* outside quotes and at a quote character
AtUnquotedQuote ==
    LET states == ScanStates(call.text, DefaultDelimiter, DefaultQuote, ScanStart)
    IN  {k \in 1..Len(states) :
            /\ states[k].error = ""
            /\ states[k].i <= Len(call.text)
            /\ ~states[k].in_quotes
            /\ call.text[states[k].i] = DefaultQuote}

\* C20: outside quotes, a quote character met while the field buffer is not
\* empty makes the parse fail with MalformedField and return no rows; a quote
\* met while the field buffer is empty does not fail and puts the scanner in
\* quotes, its rows and buffers as they were.
C20_QuoteInUnquotedField ==
    call.op = "parse_csv"
    => LET states == ScanStates(call.text, DefaultDelimiter, DefaultQuote, ScanStart)
       IN  \A k \in AtUnquotedQuote :
            IF states[k].field_chars # <<>>
            THEN result = Raise("MalformedField") /\ result.value = <<>>
            ELSE /\ k < Len(states)
                 /\ states[k + 1] = [states[k] EXCEPT !.in_quotes = TRUE, !.i = @ + 1]

\* a parse that entered quotes at a quote with an empty buffer and failed at
\* a later quote with a non-empty buffer
C20_Witness ==
    /\ call.op = "parse_csv"
    /\ result.status = "MalformedField"
    /\ LET states == ScanStates(call.text, DefaultDelimiter, DefaultQuote, ScanStart)
       IN  /\ \E k \in AtUnquotedQuote : states[k].field_chars = <<>>
           /\ \E k \in AtUnquotedQuote : states[k].field_chars # <<>>

\* the scanner when the parse of the call's text left the loop or raised
LastScan ==
    LET states == ScanStates(call.text, DefaultDelimiter, DefaultQuote, ScanStart)
    IN  states[Len(states)]

\* the last character of the call's text is a quote met inside quotes and
\* not doubled: the closing quote of a quoted field
EndsWithClosingQuote ==
    LET states == ScanStates(call.text, DefaultDelimiter, DefaultQuote, ScanStart)
    IN  \E k \in 1..Len(states) :
            /\ states[k].error = ""
            /\ states[k].in_quotes
            /\ states[k].i = Len(call.text)
            /\ call.text[states[k].i] = DefaultQuote

\* C21: the parse fails with UnterminatedQuote, and returns no rows, exactly
\* when the scanner reaches the end of the input inside quotes; a text whose
\* last character is the closing quote of a quoted field does not fail.
C21_UnterminatedQuote ==
    call.op = "parse_csv"
    => /\ (result.status = "UnterminatedQuote")
            <=> (LastScan.error = "" /\ LastScan.i > Len(call.text) /\ LastScan.in_quotes)
       /\ result.status = "UnterminatedQuote" => result = Raise("UnterminatedQuote")
       /\ EndsWithClosingQuote => result.status = "ok"

\* the end of input is met inside quotes after a row was completed
C21_Witness ==
    /\ call.op = "parse_csv"
    /\ result.status = "UnterminatedQuote"
    /\ LastScan.in_quotes
    /\ LastScan.rows # <<>>

\* the scanner states of the parse of the call's text in which the loop is
\* outside quotes and at a line terminator
AtUnquotedTerminator ==
    LET states == ScanStates(call.text, DefaultDelimiter, DefaultQuote, ScanStart)
    IN  {k \in 1..Len(states) :
            /\ states[k].error = ""
            /\ states[k].i <= Len(call.text)
            /\ ~states[k].in_quotes
            /\ call.text[states[k].i] \in {"\r", "\n"}}

\* the row that ends at the terminator of scanner state st
EndedRow(st) == Append(st.row, st.field_chars)

\* C23: at a line terminator outside quotes the row is dropped if and only
\* if it is a single empty field, and a row of more than one field is kept
\* even when all its fields are empty; no row returned by the parse has zero
\* fields or is exactly one empty field.
C23_BlankRowsDropped ==
    call.op = "parse_csv"
    => LET states == ScanStates(call.text, DefaultDelimiter, DefaultQuote, ScanStart)
       IN  /\ \A k \in AtUnquotedTerminator :
                /\ k < Len(states)
                /\ states[k + 1].rows =
                        IF EndedRow(states[k]) = <<<<>>>> THEN states[k].rows
                        ELSE Append(states[k].rows, EndedRow(states[k]))
           /\ result.status = "ok"
                => \A r \in 1..Len(result.value) :
                        Len(result.value[r]) > 0 /\ result.value[r] # <<<<>>>>

\* a text with a blank line, which is dropped, and a line of two empty
\* fields, which is kept
C23_Witness ==
    /\ call.op = "parse_csv"
    /\ result.status = "ok"
    /\ LET states == ScanStates(call.text, DefaultDelimiter, DefaultQuote, ScanStart)
       IN  /\ \E k \in AtUnquotedTerminator : EndedRow(states[k]) = <<<<>>>>
           /\ \E k \in AtUnquotedTerminator : EndedRow(states[k]) = <<<<>>, <<>>>>
    /\ \E r \in 1..Len(result.value) : result.value[r] = <<<<>>, <<>>>>

\* the call's text does not end in a line terminator
NoFinalTerminator ==
    call.text = <<>> \/ call.text[Len(call.text)] \notin {"\r", "\n"}

\* C24: content left at the end of the input without a terminator is the
\* last row: a text that parses and does not end in a line terminator gives
\* the same rows as the text followed by one "\n".
C24_TrailingRowFinalized ==
    (call.op = "parse_csv" /\ result.status = "ok" /\ NoFinalTerminator)
    => ParseCsv(call.text \o <<"\n">>, DefaultDelimiter, DefaultQuote) = result

\* a parsed text that ends, without a terminator, after a delimiter: the
\* last row ends in an empty field
C24_Witness ==
    /\ call.op = "parse_csv"
    /\ result.status = "ok"
    /\ NoFinalTerminator
    /\ LastScan.row # <<>>
    /\ LastScan.field_chars = <<>>
    /\ Len(result.value) = Len(LastScan.rows) + 1

\* scanner state k of the sequence is in quotes at a quote that is not
\* doubled: the closing quote of a quoted span
ClosesSpan(states, k) ==
    /\ states[k].error = ""
    /\ states[k].i <= Len(call.text)
    /\ states[k].in_quotes
    /\ call.text[states[k].i] = DefaultQuote
    /\ k < Len(states)
    /\ ~states[k + 1].in_quotes

\* scanner state k is outside quotes at a delimiter or a line terminator:
\* the end of a field
EndsField(states, k) ==
    /\ states[k].error = ""
    /\ states[k].i <= Len(call.text)
    /\ ~states[k].in_quotes
    /\ call.text[states[k].i] \in {DefaultDelimiter, "\r", "\n"}

\* states j and k, j before k, are in the same field
SameField(states, j, k) == \A m \in j..(k - 1) : ~EndsField(states, m)

\* C25: a field has at most one quoted span: after the closing quote of a
\* quoted span every later quote character of the same field makes the parse
\* fail with MalformedField, and the scanner never enters quotes twice
\* between two field ends.
C25_OneQuotedSpanPerField ==
    call.op = "parse_csv"
    => LET states == ScanStates(call.text, DefaultDelimiter, DefaultQuote, ScanStart)
       IN  /\ \A j \in 1..Len(states) : \A k \in AtUnquotedQuote :
                (j < k /\ ClosesSpan(states, j) /\ SameField(states, j, k))
                => /\ states[k + 1].error = "MalformedField"
                   /\ result = Raise("MalformedField")
           /\ \A j \in AtUnquotedQuote : \A k \in AtUnquotedQuote :
                (j < k /\ states[j + 1].in_quotes /\ states[k + 1].in_quotes)
                => ~SameField(states, j, k)

\* a quoted span is closed and a later quote of the same field fails
C25_Witness ==
    /\ call.op = "parse_csv"
    /\ result.status = "MalformedField"
    /\ LET states == ScanStates(call.text, DefaultDelimiter, DefaultQuote, ScanStart)
       IN  \E j \in 1..Len(states) : \E k \in AtUnquotedQuote :
                j < k /\ ClosesSpan(states, j) /\ SameField(states, j, k)

\* the output rows of the outer join of the call, in order
OuterPlan == JoinPlan(self, call.other, call.on, "outer")

PhaseRank(phase) == IF phase = "inner" THEN 1 ELSE IF phase = "left" THEN 2 ELSE 3

\* the positions of the output rows of a phase
PhaseRows(phase) == {k \in 1..Len(OuterPlan) : OuterPlan[k].phase = phase}

\* C22: the outer join emits all matched pairs, then the unmatched left
\* rows, then the unmatched right rows.  Every pair of rows with equal keys is
\* emitted once, in the first phase; a row of either side with a match is in
\* neither unmatched phase, also when its key matches several rows on both
\* sides; every row without a match is emitted exactly once, in its side's
\* phase, with None for the other side.  The returned table has these rows
\* in this order.
C22_OuterJoinPhases ==
    (ValidJoin("outer") /\ DefaultSuffixes)
    => /\ \A j, k \in 1..Len(OuterPlan) :
            j < k => PhaseRank(OuterPlan[j].phase) <= PhaseRank(OuterPlan[k].phase)
       /\ {<<OuterPlan[k].i, OuterPlan[k].r>> : k \in PhaseRows("inner")} = MatchPairs
       /\ Cardinality(PhaseRows("inner")) = Cardinality(MatchPairs)
       /\ {OuterPlan[k].i : k \in PhaseRows("left")} = UnmatchedLeftRows
       /\ Cardinality(PhaseRows("left")) = Cardinality(UnmatchedLeftRows)
       /\ \A k \in PhaseRows("left") : OuterPlan[k].r = 0
       /\ {OuterPlan[k].r : k \in PhaseRows("right")} = UnmatchedRightRows
       /\ Cardinality(PhaseRows("right")) = Cardinality(UnmatchedRightRows)
       /\ \A k \in PhaseRows("right") : OuterPlan[k].i = 0
       /\ Returned
       /\ result.df.length = Len(OuterPlan)
       /\ \A k \in 1..Len(OuterPlan) :
            LET i == OuterPlan[k].i
                r == OuterPlan[k].r
            IN  /\ \A c \in OnSet :
                    Get(result.df.data, c)[k] =
                        IF i # 0 THEN Get(self.data, c)[i] ELSE Get(call.other.data, c)[r]
                /\ \A c \in LeftNonKey :
                    Get(result.df.data, LeftName(c))[k] =
                        IF i # 0 THEN Get(self.data, c)[i] ELSE None
                /\ \A c \in RightNonKey :
                    Get(result.df.data, RightName(c))[k] =
                        IF r # 0 THEN Get(call.other.data, c)[r] ELSE None

\* one key matches two rows on each side while a row of each side has no
\* match
C22_Witness ==
    /\ ValidJoin("outer")
    /\ Returned
    /\ \E i1, i2 \in Rows(self) : \E r1, r2 \in Rows(call.other) :
        /\ i1 # i2
        /\ r1 # r2
        /\ {i1, i2} \X {r1, r2} \subseteq MatchPairs
    /\ UnmatchedLeftRows # {}
    /\ UnmatchedRightRows # {}
    /\ result.df.length = 6

\* the names the join writes its output columns under, and how many columns
\* it writes
OutputNames ==
    OnSet \cup {LeftName(c) : c \in LeftNonKey} \cup {RightName(c) : c \in RightNonKey}

OutputCount == Cardinality(OnSet) + Cardinality(LeftNonKey) + Cardinality(RightNonKey)

\* the call is a join of one of the four modes on columns of both tables
\* that emits at least one output row and writes two of its output columns
\* under one name
ClashingJoin ==
    /\ \E how \in {"inner", "left", "right", "outer"} : ValidJoin(how)
    /\ Len(JoinPlan(self, call.other, call.on, call.how)) > 0
    /\ Cardinality(OutputNames) < OutputCount

\* C26: a join with a non-empty `on` that emits at least one row and whose
\* suffixing gives two output columns one name (equal suffixes, or name +
\* suffix equal to the name of another output column) returns no table: it
\* fails with SchemaError.
C26_NameClashRaises == ClashingJoin => result.status = "SchemaError"

\* the call is a join on columns of both tables, `on` and `how` being any
\* of the arguments, that emits no output row
EmptyJoin ==
    /\ call.op = "join"
    /\ \A c \in OnSet : Has(self.data, c) /\ Has(call.other.data, c)
    /\ JoinPlan(self, call.other, call.on, call.how) = <<>>

\* C27: a join that emits no output row returns a table of shape (0, 0):
\* it has no column, neither the keys nor a non-key column of an input.
C27_EmptyJoinShape ==
    EmptyJoin => Returned /\ Shape(result.df) = <<0, 0>> /\ Columns(result.df) = <<>>

\* an inner join of two tables with rows and columns and no key in common
C27_Witness ==
    /\ EmptyJoin
    /\ call.how = "inner"
    /\ Len(call.on) > 0
    /\ self.length > 0
    /\ call.other.length > 0
    /\ LeftNonKey # {}
    /\ Returned

\* the call is a join on columns of both tables with a `how` that is none
\* of inner, left, right and outer
UnknownHowJoin ==
    /\ call.op = "join"
    /\ call.how \notin {"inner", "left", "right", "outer"}
    /\ \A c \in OnSet : Has(self.data, c) /\ Has(call.other.data, c)

\* C28: join with a `how` other than inner, left, right and outer, and with
\* `on` columns that exist, does not fail: it returns the empty table of
\* shape (0, 0), whatever the two tables hold.
C28_UnknownHowReturnsEmpty ==
    UnknownHowJoin => result = Ok(EmptyDF) /\ Shape(result.df) = <<0, 0>>

\* an unknown `how` on two tables that have rows with an equal key
C28_Witness ==
    /\ UnknownHowJoin
    /\ Len(call.on) > 0
    /\ MatchPairs # {}
    /\ UnmatchedLeftRows # {}
    /\ Returned

\* C29: the index built by group_by is a partition of the rows of the table:
\* every row is in the list of exactly one group, every list is non-empty and
\* ascending, every row of a list has the key of its group, and the groups
\* are in the order of the first row of each.
C29_GroupIndexPartition ==
    grouped.live
    => LET g == grouped.groups
           df == grouped.df
       IN  /\ \A i \in 1..df.length :
                Cardinality({p \in UNION {{<<k, x>> : x \in 1..Len(g[k].values)} :
                                            k \in 1..Len(g)} :
                                g[p[1]].values[p[2]] = i}) = 1
           /\ \A k \in 1..Len(g) :
                /\ Len(g[k].values) > 0
                /\ \A x \in 1..Len(g[k].values) :
                    /\ g[k].values[x] \in 1..df.length
                    /\ KeyAt(df, grouped.group_cols, g[k].values[x]) = g[k].key
                /\ \A x, y \in 1..Len(g[k].values) :
                    x < y => g[k].values[x] < g[k].values[y]
           /\ \A j, k \in 1..Len(g) :
                j < k => g[j].key # g[k].key /\ g[j].values[1] < g[k].values[1]

\* a table grouped by a column into two groups
C29_Witness ==
    /\ grouped.live
    /\ Len(grouped.group_cols) > 0
    /\ grouped.df = self
    /\ Len(grouped.groups) >= 2

\* the call loaded a text that parses
LoadedParsed ==
    /\ call.op = "load"
    /\ ParseCsv(call.text, DefaultDelimiter, DefaultQuote).status = "ok"

\* C30: loading a CSV text that parses through the header path never fails
\* with SchemaError.  With a header row and data rows the table's columns
\* are the distinct names of the header and every column has one cell per
\* data row the parser returned, whatever the number of fields of the row;
\* a text with only a header row, or with no row, gives the table of shape
\* (0, 0).
C30_LoadNeverSchemaError ==
    LoadedParsed
    => /\ result.status # "SchemaError"
       /\ Returned
       /\ IF Len(ParsedRows) <= 1 THEN Shape(result.df) = <<0, 0>>
          ELSE LET header == ParsedRows[1]
               IN  /\ KeySet(result.df.data) = {header[i] : i \in 1..Len(header)}
                   /\ Len(result.df.data) = Cardinality(KeySet(result.df.data))
                   /\ result.df.length = Len(ParsedRows) - 1
                   /\ \A j \in 1..Len(result.df.data) :
                        Len(result.df.data[j].values) = Len(ParsedRows) - 1

\* a loaded text with a data row that has fewer fields than the header
C30_Witness ==
    /\ LoadedParsed
    /\ Returned
    /\ Len(ParsedRows) >= 2
    /\ Len(ParsedRows[2]) < Len(ParsedRows[1])
    /\ result.df.length >= 1

====
